---- MODULE Spec2Model ----
(***************************************************************************)
(* MultiDatabaseConnectionPool of postgres/datadog_checks/postgres/        *)
(* connections.py: a registry of at most one connection per database name, *)
(* an optional cap max_conns, TTL pruning, LRU eviction and the scoped     *)
(* lease get_connection.  The class takes no lock, so every statement that *)
(* touches the registry, the stats, a connection or the clock is a step of *)
(* its own and the steps of different threads interleave freely (Spec).    *)
(* SpecSeq is the same program with callers that run one pool call at a    *)
(* time (leases still overlap, and a sleeping acquirer lets others run).   *)
(* A statement takes no clock time: the clock advances, and a connection   *)
(* breaks, only while every thread is outside a call, in a body or asleep. *)
(* SpecLive is Spec with threads that keep running and a clock that keeps  *)
(* advancing.  SpecHttp is the wrapper of Component.http_error of          *)
(* openstack_controller/components/component.py around one method.         *)
(***************************************************************************)
EXTENDS Integers, Sequences, FiniteSets, TLC

\* ---------------------------------------------------------------- bounds
MaxOps == 3          \* pool calls started in one behaviour of SpecSeq
MaxRaceOps == 2      \* pool calls started in one behaviour of Spec
MaxTime == 2         \* the clock runs 0..MaxTime
MaxFaults == 1       \* connect/startup/close failures and broken connections injected
MaxCalls == 2        \* calls of the wrapped method in one behaviour of SpecHttp

Threads == {"t1", "t2"}
Keys == {"a", "b"}
TTLs == {1}                  \* ttl_ms values passed by callers, in clock ticks
Timeouts == {0, 1}           \* timeout values passed by callers; 0 is "not given"
Caps == {0, 1}               \* max_conns values; 0 is None (no cap)

\* ------------------------------------------------------- configuration
MainDb == "a"                \* self._config.dbname
IdleConnectionTimeout == 1   \* self._config.idle_connection_timeout
ConnectionTimeout == 1       \* self._config.connection_timeout
SleepTicks == 2              \* time.sleep(0.01): one polling interval (a timeout may end inside it)
startup_fn == TRUE           \* the startup hook get_connection passes on

VARIABLES
    now,        \* datetime.datetime.now()
    max_conns,  \* self.max_conns (0 is None)
    conns,      \* self._conns: the dict as its items in insertion order
    stats,      \* self._stats
    dbs,        \* every connection connect_fn has returned, by its number
    th,         \* each thread's position and locals
    ops,        \* pool calls started so far
    faults,     \* failures injected so far
    serial,     \* whether callers run one pool call at a time
    http        \* a method wrapped by Component.http_error: its call in progress

vars == <<now, max_conns, conns, stats, dbs, th, ops, faults, serial, http>>

\* ------------------------------------------------------------ the records
\* class ConnectionInfo (the thread field is never set by this file)
ConnectionInfo(connection, deadline, active, last_accessed, persistent) ==
    [connection |-> connection, deadline |-> deadline, active |-> active,
     last_accessed |-> last_accessed, persistent |-> persistent]

NoInfo == ConnectionInfo(0, 0, FALSE, 0, FALSE)

\* class Stats
Stats == [connection_opened |-> 0, connection_pruned |-> 0,
          connection_closed |-> 0, connection_closed_failed |-> 0]

\* one item of the dict: the key and the ConnectionInfo object, with the object's
\* identity and whether get_main_db has handed this record out (both for the
\* properties only: the code reads neither)
Item(name, rid, info, main) == [name |-> name, rid |-> rid, info |-> info, main |-> main]

NoItem == Item("None", 0, NoInfo, FALSE)

\* a psycopg connection as the pool sees it: closed, broken, close()
NewDb(dbname) == [dbname |-> dbname, closed |-> FALSE, broken |-> FALSE,
                  closes |-> 0, startups |-> 0]

\* ------------------------------------------------------ dict operations
Has(d, name) == \E i \in 1..Len(d) : d[i].name = name

IndexOf(d, name) == CHOOSE i \in 1..Len(d) : d[i].name = name

Get(d, name) == d[IndexOf(d, name)]

Pop(d, name) == SelectSeq(d, LAMBDA e : e.name # name)

Put(d, item) ==
    IF Has(d, item.name)
    THEN [d EXCEPT ![IndexOf(d, item.name)] = item]
    ELSE Append(d, item)

\* an in-place write of .active to the object rid, seen through every reference
SetActive(s, rid, v) ==
    [i \in 1..Len(s) |-> IF s[i].rid = rid THEN [s[i] EXCEPT !.info.active = v] ELSE s[i]]

\* sorted(items, key=last_accessed): a stable insertion sort
RECURSIVE InsertSorted(_, _)
InsertSorted(s, e) ==
    IF s = <<>> THEN <<e>>
    ELSE IF s[Len(s)].info.last_accessed <= e.info.last_accessed
         THEN Append(s, e)
         ELSE Append(InsertSorted(SubSeq(s, 1, Len(s) - 1), e), s[Len(s)])

\* a variant of the sort: the items most recently inserted first
NewestFirst(s) == [i \in 1..Len(s) |-> s[Len(s) + 1 - i]]

RECURSIVE Sorted(_)
Sorted(s) ==
    IF s = <<>> THEN <<>>
    ELSE InsertSorted(Sorted(SubSeq(s, 1, Len(s) - 1)), s[Len(s)])

\* ------------------------------------------ Component.http_error: data
\* the signature of the wrapped method, what it may return, the tags callers pass
Params == <<"self", "project_id", "tags">>
Results == {"None", "True", "False", "data"}
TagValues == {"project:a", "project:b"}

\* how a caller passes tags: as second positional argument, by name, or not at all
ArgsOf(how, v) == IF how = "positional" THEN <<"p", v>> ELSE <<"p">>

KwargsOf(how, v) == IF how = "keyword" THEN << <<"tags", v>> >> ELSE <<>>

\* a variant of lines 16-20: the position is not corrected for self
argument_value_with_self(arg_name, params, args, kwargs) ==
    LET position ==
            IF \E i \in 1..Len(params) : params[i] = arg_name
            THEN (CHOOSE i \in 1..Len(params) : params[i] = arg_name) - 1
            ELSE -1
    IN  IF position # -1 /\ position < Len(args) THEN args[position + 1]
        ELSE IF \E i \in 1..Len(kwargs) : kwargs[i][1] = arg_name
        THEN kwargs[CHOOSE i \in 1..Len(kwargs) : kwargs[i][1] = arg_name][2]
        ELSE "None"

\* argument_value, lines 14-27 (positions count from 0, None is -1)
argument_value(arg_name, params, args, kwargs) ==
    LET position ==
            IF \E i \in 1..Len(params) : params[i] = arg_name
            THEN (CHOOSE i \in 1..Len(params) : params[i] = arg_name) - 1
                 - (IF \E i \in 1..Len(params) : params[i] = "self" THEN 1 ELSE 0)
            ELSE -1
    IN  IF position # -1 /\ position < Len(args) THEN args[position + 1]
        ELSE IF \E i \in 1..Len(kwargs) : kwargs[i][1] = arg_name
        THEN kwargs[CHOOSE i \in 1..Len(kwargs) : kwargs[i][1] = arg_name][2]
        ELSE "None"

\* no call of the wrapped method in progress; service_check is the decorator's argument
HttpIdle(service_check) ==
    [pc |-> "idle", service_check |-> service_check, args |-> <<>>, kwargs |-> <<>>,
     passed |-> "None", tags |-> "unbound", result |-> "None", raised |-> "none",
     ret |-> "none", exc |-> "none", emitted |-> <<>>, calls |-> 0]

\* ------------------------------------------------------- thread locals
Idle == [pc |-> "idle", stack |-> <<>>, op |-> "none",
         dbname |-> "None", ttl_ms |-> 0, timeout |-> 0, persistent |-> FALSE,
         start |-> 0, conn |-> NoItem,
         db |-> 0, wake |-> 0, now |-> 0, items |-> <<>>, i |-> 0,
         t_dbname |-> "None", t_db |-> 0, t_ret |-> TRUE, t_by |-> "none",
         success |-> TRUE, exc |-> "none", ret |-> "None",
         opened |-> FALSE, tries |-> 0, exit |-> "none",
         pre |-> <<>>, pre_stats |-> Stats, pre_dbs |-> <<>>]

\* __init__, lines 70-86
Init ==
    /\ now = 0
    /\ max_conns \in Caps
    /\ conns = <<>>
    /\ stats = Stats
    /\ dbs = <<>>
    /\ th = [t \in Threads |-> Idle]
    /\ ops = 0
    /\ faults = 0
    /\ serial = FALSE
    /\ http = HttpIdle(FALSE)

InitSeq ==
    /\ now = 0
    /\ max_conns \in Caps
    /\ conns = <<>>
    /\ stats = Stats
    /\ dbs = <<>>
    /\ th = [t \in Threads |-> Idle]
    /\ ops = 0
    /\ faults = 0
    /\ serial = TRUE
    /\ http = HttpIdle(FALSE)

\* the identity of a new ConnectionInfo object: one no live reference carries
UsedRids ==
    {conns[i].rid : i \in 1..Len(conns)}
    \cup UNION {{th[u].items[i].rid : i \in 1..Len(th[u].items)} : u \in Threads}
    \cup {th[u].conn.rid : u \in Threads}

FreshRid == CHOOSE r \in 1..(Cardinality(UsedRids) + 1) :
                r \notin UsedRids /\ \A q \in 1..(r - 1) : q \in UsedRids

\* ----------------------------------------------------------- scheduling
\* a thread that is not in the middle of a pool call (a sleeping one has yielded)
Outside(u) == th[u].pc \in {"idle", "body", "raw_sleep"}

\* t may take a step: a finished call's result is read at once, and serial
\* callers do not enter a call while another thread is inside one
Turn(t) ==
    \A u \in Threads \ {t} : IF serial THEN Outside(u) ELSE th[u].pc # "done"

At(t, label) == th[t].pc = label /\ Turn(t)

Budget == IF serial THEN MaxOps ELSE MaxRaceOps


\* --------------------------------------------------------- control flow
Call(L, entry, back) == [L EXCEPT !.pc = entry, !.stack = <<back>> \o L.stack]

Return(L) == [L EXCEPT !.pc = Head(L.stack), !.stack = Tail(L.stack)]

Raise(L, e) == [L EXCEPT !.pc = "done", !.stack = <<>>, !.exc = e, !.pre_dbs = <<>>]

Set(t, L) == th' = [th EXCEPT ![t] = L]

\* ------------------------------------------------- the code's conditions
\* a variant of line 109: an open connection is taken for a closed one
NeedsOpenUnlessClosed(db) == db = 0 \/ ~dbs[db].closed \/ dbs[db].broken

\* line 109: db is None or db.closed or db.broken
NeedsOpen(db) == db = 0 \/ dbs[db].closed \/ dbs[db].broken

\* line 113: len(self._conns) >= self.max_conns
PoolFull(d) == Len(d) >= max_conns

\* a variant of line 116: the comparison is reversed
TimedOutReversed(start, timeout) == now - start < timeout

\* line 116: timeout is not None and elapsed > timeout
TimedOut(start, timeout) == now - start > timeout

\* a variant of line 126: the caller's persistent argument wins
CallerPersistent(info, persistent) == persistent

\* line 126: if already in pool, retain persistence status
RetainedPersistent(info, persistent) == info.persistent

\* a variant of line 179: a record is taken at its deadline already
PruneEligibleAtDeadline(info, at) == info.deadline <= at /\ ~info.active /\ ~info.persistent

\* line 179: conn.deadline < now and not conn.active and not conn.persistent
PruneEligible(info, at) == info.deadline < at /\ ~info.active /\ ~info.persistent

\* line 200: not conn_info.active and not conn_info.persistent
EvictEligible(info) == ~info.active /\ ~info.persistent

\* ------------------------------------------------------------ the calls
\* get_connection, lines 139-149, and _get_connection_raw, lines 101-106
get_connection(t) ==
    /\ At(t, "idle") /\ ops < Budget
    /\ \E dbname \in Keys, ttl_ms \in TTLs, timeout \in Timeouts, persistent \in BOOLEAN :
        Set(t, Call([Idle EXCEPT !.op = "get_connection", !.dbname = dbname,
                         !.ttl_ms = ttl_ms, !.persistent = persistent,
                         !.timeout = IF timeout = 0 THEN ConnectionTimeout ELSE timeout,
                         !.start = now, !.pre = conns, !.pre_stats = stats,
                         !.pre_dbs = dbs],
                    "prune_snap", "raw_pop"))
    /\ ops' = ops + 1
    /\ UNCHANGED <<now, max_conns, conns, stats, dbs, faults, serial, http>>

\* get_main_db, lines 222-227
get_main_db(t) ==
    /\ At(t, "idle") /\ ops < Budget
    /\ Set(t, Call([Idle EXCEPT !.op = "get_main_db", !.dbname = MainDb,
                        !.ttl_ms = IdleConnectionTimeout, !.persistent = TRUE,
                        !.timeout = ConnectionTimeout,
                        !.start = now, !.pre = conns, !.pre_stats = stats,
                         !.pre_dbs = dbs],
                   "prune_snap", "raw_pop"))
    /\ ops' = ops + 1
    /\ UNCHANGED <<now, max_conns, conns, stats, dbs, faults, serial, http>>

\* a caller of prune_connections()
call_prune_connections(t) ==
    /\ At(t, "idle") /\ ops < Budget
    /\ Set(t, Call([Idle EXCEPT !.op = "prune_connections",
                        !.pre = conns, !.pre_stats = stats],
                   "prune_snap", "done"))
    /\ ops' = ops + 1
    /\ UNCHANGED <<now, max_conns, conns, stats, dbs, faults, serial, http>>

\* a caller of evict_lru()
call_evict_lru(t) ==
    /\ At(t, "idle") /\ ops < Budget
    /\ Set(t, Call([Idle EXCEPT !.op = "evict_lru",
                        !.pre = conns, !.pre_stats = stats],
                   "evict_sort", "done"))
    /\ ops' = ops + 1
    /\ UNCHANGED <<now, max_conns, conns, stats, dbs, faults, serial, http>>

\* a caller of close_all_connections()
call_close_all_connections(t) ==
    /\ At(t, "idle") /\ ops < Budget
    /\ Set(t, [Idle EXCEPT !.op = "close_all_connections", !.pc = "close_snap",
                   !.pre = conns, !.pre_stats = stats])
    /\ ops' = ops + 1
    /\ UNCHANGED <<now, max_conns, conns, stats, dbs, faults, serial, http>>

\* the caller has read the result of its call
finish(t) ==
    /\ At(t, "done")
    /\ Set(t, Idle)
    /\ UNCHANGED <<now, max_conns, conns, stats, dbs, ops, faults, serial, http>>

\* ------------------------------------------------- prune_connections
\* lines 177-178: now = datetime.now(); list(self._conns.items())
prune_snap(t) ==
    /\ At(t, "prune_snap")
    /\ Set(t, [th[t] EXCEPT !.pc = "prune_loop", !.now = now, !.items = conns, !.i = 1])
    /\ UNCHANGED <<now, max_conns, conns, stats, dbs, ops, faults, serial, http>>

\* lines 178-181: one iteration of the loop over the copied items
prune_loop(t) ==
    LET L == th[t] IN
    /\ At(t, "prune_loop")
    /\ IF L.i > Len(L.items)
       THEN /\ Set(t, Return([L EXCEPT !.items = <<>>, !.i = 0]))
            /\ UNCHANGED stats
       ELSE IF PruneEligible(L.items[L.i].info, L.now)
       THEN /\ stats' = [stats EXCEPT !.connection_pruned = @ + 1]
            /\ Set(t, Call([L EXCEPT !.i = @ + 1, !.t_dbname = L.items[L.i].name,
                                     !.t_by = "prune"],
                           "term_check", "prune_loop"))
       ELSE /\ Set(t, [L EXCEPT !.i = @ + 1])
            /\ UNCHANGED stats
    /\ UNCHANGED <<now, max_conns, conns, dbs, ops, faults, serial, http>>

\* ------------------------------------------ _terminate_connection_unsafe
\* lines 208-209: if dbname not in self._conns: return True
term_check(t) ==
    LET L == th[t] IN
    /\ At(t, "term_check")
    /\ IF ~Has(conns, L.t_dbname)
       THEN Set(t, Return([L EXCEPT !.t_ret = TRUE]))
       ELSE Set(t, [L EXCEPT !.pc = "term_pop"])
    /\ UNCHANGED <<now, max_conns, conns, stats, dbs, ops, faults, serial, http>>

\* line 211: db = self._conns.pop(dbname).connection (KeyError when absent)
term_pop(t) ==
    LET L == th[t] IN
    /\ At(t, "term_pop")
    /\ IF ~Has(conns, L.t_dbname)
       THEN /\ Set(t, Raise(L, "KeyError"))
            /\ UNCHANGED conns
       ELSE /\ Set(t, [L EXCEPT !.pc = "term_close",
                                !.t_db = Get(conns, L.t_dbname).info.connection])
            /\ conns' = Pop(conns, L.t_dbname)
    /\ UNCHANGED <<now, max_conns, stats, dbs, ops, faults, serial, http>>

\* a variant of lines 212-220: the failure of close() is counted and raised again
term_close_raising(t) ==
    LET L == th[t] IN
    /\ At(t, "term_close")
    /\ \/ /\ dbs' = [dbs EXCEPT ![L.t_db].closed = TRUE, ![L.t_db].closes = @ + 1]
          /\ stats' = [stats EXCEPT !.connection_closed = @ + 1]
          /\ Set(t, Return([L EXCEPT !.t_ret = TRUE, !.t_db = 0]))
          /\ UNCHANGED faults
       \/ /\ faults < MaxFaults
          /\ faults' = faults + 1
          /\ dbs' = [dbs EXCEPT ![L.t_db].closes = @ + 1]
          /\ stats' = [stats EXCEPT !.connection_closed_failed = @ + 1]
          /\ Set(t, Raise([L EXCEPT !.t_db = 0], "CloseFailure"))
    /\ UNCHANGED <<now, max_conns, conns, ops, serial, http>>

\* lines 212-220: db.close() and the counters
term_close(t) ==
    LET L == th[t] IN
    /\ At(t, "term_close")
    /\ \/ /\ dbs' = [dbs EXCEPT ![L.t_db].closed = TRUE, ![L.t_db].closes = @ + 1]
          /\ stats' = [stats EXCEPT !.connection_closed = @ + 1]
          /\ Set(t, Return([L EXCEPT !.t_ret = TRUE, !.t_db = 0]))
          /\ UNCHANGED faults
       \/ /\ faults < MaxFaults
          /\ faults' = faults + 1
          /\ dbs' = [dbs EXCEPT ![L.t_db].closes = @ + 1]
          /\ stats' = [stats EXCEPT !.connection_closed_failed = @ + 1]
          /\ Set(t, Return([L EXCEPT !.t_ret = FALSE, !.t_db = 0]))
    /\ UNCHANGED <<now, max_conns, conns, ops, serial, http>>

\* ----------------------------------------------------------- evict_lru
\* line 198: sorted(self._conns.items(), key=last_accessed)
evict_sort(t) ==
    /\ At(t, "evict_sort")
    /\ Set(t, [th[t] EXCEPT !.pc = "evict_loop", !.items = Sorted(conns), !.i = 1])
    /\ UNCHANGED <<now, max_conns, conns, stats, dbs, ops, faults, serial, http>>

\* lines 199-205: one iteration; the first eligible item is terminated and named
evict_loop(t) ==
    LET L == th[t] IN
    /\ At(t, "evict_loop")
    /\ IF L.i > Len(L.items)
       THEN Set(t, Return([L EXCEPT !.items = <<>>, !.i = 0, !.ret = "None"]))
       ELSE IF EvictEligible(L.items[L.i].info)
       THEN Set(t, [L EXCEPT !.pc = "term_check", !.items = <<>>, !.i = 0,
                             !.t_dbname = L.items[L.i].name, !.t_by = "evict",
                             !.ret = L.items[L.i].name])
       ELSE Set(t, [L EXCEPT !.i = @ + 1])
    /\ UNCHANGED <<now, max_conns, conns, stats, dbs, ops, faults, serial, http>>

\* ------------------------------------------------ close_all_connections
\* lines 187-188: success = True; list(self._conns)
close_snap(t) ==
    /\ At(t, "close_snap")
    /\ Set(t, [th[t] EXCEPT !.pc = "close_loop", !.items = conns, !.i = 1,
                            !.success = TRUE])
    /\ UNCHANGED <<now, max_conns, conns, stats, dbs, ops, faults, serial, http>>

\* lines 188-191: one iteration, or return success
close_loop(t) ==
    LET L == th[t] IN
    /\ At(t, "close_loop")
    /\ IF L.i > Len(L.items)
       THEN Set(t, [L EXCEPT !.pc = "done", !.items = <<>>, !.i = 0,
                             !.ret = IF L.success THEN "True" ELSE "False"])
       ELSE Set(t, Call([L EXCEPT !.i = @ + 1, !.t_dbname = L.items[L.i].name,
                                  !.t_by = "close_all"],
                        "term_check", "close_next"))
    /\ UNCHANGED <<now, max_conns, conns, stats, dbs, ops, faults, serial, http>>

\* a variant of lines 189-190: success is the outcome of the last close alone
close_next_last(t) ==
    LET L == th[t] IN
    /\ At(t, "close_next")
    /\ Set(t, [L EXCEPT !.pc = "close_loop", !.success = L.t_ret])
    /\ UNCHANGED <<now, max_conns, conns, stats, dbs, ops, faults, serial, http>>

\* lines 189-190: if not self._terminate_connection_unsafe(dbname): success = False
close_next(t) ==
    LET L == th[t] IN
    /\ At(t, "close_next")
    /\ Set(t, [L EXCEPT !.pc = "close_loop", !.success = L.success /\ L.t_ret])
    /\ UNCHANGED <<now, max_conns, conns, stats, dbs, ops, faults, serial, http>>

\* -------------------------------------------------- _get_connection_raw
\* lines 107-108: conn = self._conns.pop(dbname, None); db = conn.connection
raw_pop(t) ==
    LET L == th[t] IN
    /\ At(t, "raw_pop")
    /\ IF Has(conns, L.dbname)
       THEN /\ Set(t, [L EXCEPT !.pc = "raw_check", !.conn = Get(conns, L.dbname),
                                !.db = Get(conns, L.dbname).info.connection])
            /\ conns' = Pop(conns, L.dbname)
       ELSE /\ Set(t, [L EXCEPT !.pc = "raw_check"])
            /\ UNCHANGED conns
    /\ UNCHANGED <<now, max_conns, stats, dbs, ops, faults, serial, http>>

\* lines 109-111 and 124-126: open a new connection, or reuse the popped one
raw_check(t) ==
    LET L == th[t] IN
    /\ At(t, "raw_check")
    /\ IF NeedsOpen(L.db)
       THEN Set(t, [L EXCEPT !.pc = IF max_conns # 0 THEN "raw_while" ELSE "raw_connect"])
       ELSE Set(t, [L EXCEPT !.pc = "raw_insert",
                             !.persistent = RetainedPersistent(L.conn.info, L.persistent)])
    /\ UNCHANGED <<now, max_conns, conns, stats, dbs, ops, faults, serial, http>>

\* lines 113-114: while the pool is full, prune
raw_while(t) ==
    LET L == th[t] IN
    /\ At(t, "raw_while")
    /\ IF PoolFull(conns)
       THEN Set(t, Call(L, "prune_snap", "raw_evict"))
       ELSE Set(t, [L EXCEPT !.pc = "raw_connect"])
    /\ UNCHANGED <<now, max_conns, conns, stats, dbs, ops, faults, serial, http>>

\* line 115: self.evict_lru()
raw_evict(t) ==
    LET L == th[t] IN
    /\ At(t, "raw_evict")
    /\ Set(t, Call(L, "evict_sort", "raw_timeout"))
    /\ UNCHANGED <<now, max_conns, conns, stats, dbs, ops, faults, serial, http>>

\* lines 116-118: raise ConnectionPoolFullError, or sleep
raw_timeout(t) ==
    LET L == th[t] IN
    /\ At(t, "raw_timeout")
    /\ IF TimedOut(L.start, L.timeout)
       THEN Set(t, Raise(L, "ConnectionPoolFullError"))
       ELSE Set(t, [L EXCEPT !.pc = "raw_sleep", !.wake = now + SleepTicks, !.ret = "None"])
    /\ UNCHANGED <<now, max_conns, conns, stats, dbs, ops, faults, serial, http>>

\* lines 118-119: time.sleep(0.01) has elapsed; continue
raw_sleep(t) ==
    LET L == th[t] IN
    /\ At(t, "raw_sleep")
    /\ now >= L.wake
    /\ Set(t, [L EXCEPT !.pc = "raw_while", !.wake = 0])
    /\ UNCHANGED <<now, max_conns, conns, stats, dbs, ops, faults, serial, http>>

\* lines 120-121: count the open, then connect_fn(dbname), which may raise
raw_connect(t) ==
    LET L == th[t] IN
    /\ At(t, "raw_connect")
    /\ stats' = [stats EXCEPT !.connection_opened = @ + 1]
    /\ \/ /\ dbs' = Append(dbs, NewDb(L.dbname))
          /\ Set(t, [L EXCEPT !.pc = IF startup_fn THEN "raw_startup" ELSE "raw_insert",
                              !.db = Len(dbs) + 1, !.opened = TRUE, !.tries = @ + 1])
          /\ UNCHANGED faults
       \/ /\ faults < MaxFaults
          /\ faults' = faults + 1
          /\ Set(t, Raise([L EXCEPT !.tries = @ + 1], "ConnectFailure"))
          /\ UNCHANGED dbs
    /\ UNCHANGED <<now, max_conns, conns, ops, serial, http>>

\* a variant of lines 122-135: the record is stored before the hook runs
raw_startup_registered(t) ==
    LET L == th[t] IN
    /\ At(t, "raw_startup")
    /\ dbs' = [dbs EXCEPT ![L.db].startups = @ + 1]
    /\ \/ /\ Set(t, [L EXCEPT !.pc = "raw_insert"])
          /\ UNCHANGED <<faults, conns>>
       \/ /\ faults < MaxFaults
          /\ faults' = faults + 1
          /\ conns' = Put(conns, Item(L.dbname, FreshRid,
                                       ConnectionInfo(L.db, now + L.ttl_ms, TRUE, now,
                                                      L.persistent),
                                       FALSE))
          /\ Set(t, Raise(L, "ConnectFailure"))
    /\ UNCHANGED <<now, max_conns, stats, ops, serial, http>>

\* lines 122-123: startup_fn(db), which may raise
raw_startup(t) ==
    LET L == th[t] IN
    /\ At(t, "raw_startup")
    /\ dbs' = [dbs EXCEPT ![L.db].startups = @ + 1]
    /\ \/ /\ Set(t, [L EXCEPT !.pc = "raw_insert"])
          /\ UNCHANGED faults
       \/ /\ faults < MaxFaults
          /\ faults' = faults + 1
          /\ Set(t, Raise(L, "ConnectFailure"))
    /\ UNCHANGED <<now, max_conns, conns, stats, ops, serial, http>>

\* lines 128-136: insert the record as active and hand db to the caller's body
raw_insert(t) ==
    LET L == th[t] IN
    /\ At(t, "raw_insert")
    /\ conns' = Put(conns, Item(L.dbname, FreshRid,
                                 ConnectionInfo(L.db, now + L.ttl_ms, TRUE, now, L.persistent),
                                 L.op = "get_main_db"
                                 \/ (L.conn.main /\ L.db = L.conn.info.connection)))
    /\ Set(t, [L EXCEPT !.pc = "body", !.conn = NoItem, !.pre_dbs = <<>>])
    /\ UNCHANGED <<now, max_conns, stats, dbs, ops, faults, serial, http>>

\* -------------------------------------------- get_connection, the release
\* (pre and pre_stats are from here on the registry and the stats at the exit of
\* the body, for the properties)
\* lines 158-167: the body returned: terminate a broken connection, else mark idle
body_returns(t) ==
    LET L == th[t] IN
    /\ At(t, "body")
    /\ IF dbs[L.db].broken
       THEN /\ Set(t, Call([L EXCEPT !.t_dbname = L.dbname, !.t_by = "release",
                                     !.exit = "return", !.pre = conns, !.pre_stats = stats],
                           "term_check", "done"))
            /\ UNCHANGED conns
       ELSE IF Has(conns, L.dbname)
       THEN LET rid == Get(conns, L.dbname).rid IN
            /\ conns' = SetActive(conns, rid, FALSE)
            /\ th' = [u \in Threads |->
                        IF u = t THEN [L EXCEPT !.pc = "done", !.exit = "return", !.pre = conns, !.pre_stats = stats]
                        ELSE [th[u] EXCEPT !.items = SetActive(@, rid, FALSE)]]
       ELSE /\ Set(t, [L EXCEPT !.pc = "done", !.exit = "return", !.pre = conns, !.pre_stats = stats])
            /\ UNCHANGED conns
    /\ UNCHANGED <<now, max_conns, stats, dbs, ops, faults, serial, http>>

\* a variant of lines 152-157: an interrupted lease is released like any other
body_interrupted_marks_idle(t) ==
    LET L == th[t] IN
    /\ At(t, "body")
    /\ conns' = IF Has(conns, L.dbname)
                THEN SetActive(conns, Get(conns, L.dbname).rid, FALSE)
                ELSE conns
    /\ Set(t, [L EXCEPT !.pc = "done", !.exc = "InterruptedError", !.exit = "interrupt",
                        !.pre = conns, !.pre_stats = stats])
    /\ UNCHANGED <<now, max_conns, stats, dbs, ops, faults, serial, http>>

\* lines 152-157: the body raised InterruptedError: terminate, then re-raise
body_interrupted(t) ==
    LET L == th[t] IN
    /\ At(t, "body")
    /\ Set(t, Call([L EXCEPT !.t_dbname = L.dbname, !.t_by = "release",
                             !.exc = "InterruptedError", !.exit = "interrupt",
                             !.pre = conns, !.pre_stats = stats],
                   "term_check", "done"))
    /\ UNCHANGED <<now, max_conns, conns, stats, dbs, ops, faults, serial, http>>

\* lines 150-158: the body raised another exception: no clause of the try runs
body_raises(t) ==
    LET L == th[t] IN
    /\ At(t, "body")
    /\ Set(t, Raise([L EXCEPT !.exit = "raise", !.pre = conns, !.pre_stats = stats], "Exception"))
    /\ UNCHANGED <<now, max_conns, conns, stats, dbs, ops, faults, serial, http>>

\* ------------------------------------------------------ the environment
\* the clock advances; time.sleep(0.01) lasts one polling interval, so the clock
\* does not pass the moment a sleeping thread is due to wake
Tick ==
    /\ now < MaxTime
    /\ \A u \in Threads : Outside(u)
    /\ \A u \in Threads : th[u].pc = "raw_sleep" => now < th[u].wake
    /\ now' = now + 1
    /\ UNCHANGED <<max_conns, conns, stats, dbs, th, ops, faults, serial, http>>

\* a connection dies on the server side: it reports itself broken
BreakDb ==
    /\ faults < MaxFaults
    /\ \A u \in Threads : Outside(u)
    /\ \E c \in 1..Len(dbs) :
        /\ ~dbs[c].closed /\ ~dbs[c].broken
        /\ dbs' = [dbs EXCEPT ![c].broken = TRUE]
    /\ faults' = faults + 1
    /\ UNCHANGED <<now, max_conns, conns, stats, th, ops, serial, http>>

\* ------------------------------------------------- the specifications
Next ==
    \/ \E t \in Threads : get_connection(t)
    \/ \E t \in Threads : get_main_db(t)
    \/ \E t \in Threads : call_prune_connections(t)
    \/ \E t \in Threads : call_evict_lru(t)
    \/ \E t \in Threads : call_close_all_connections(t)
    \/ \E t \in Threads : finish(t)
    \/ \E t \in Threads : prune_snap(t)
    \/ \E t \in Threads : prune_loop(t)
    \/ \E t \in Threads : term_check(t)
    \/ \E t \in Threads : term_pop(t)
    \/ \E t \in Threads : term_close(t)
    \/ \E t \in Threads : evict_sort(t)
    \/ \E t \in Threads : evict_loop(t)
    \/ \E t \in Threads : close_snap(t)
    \/ \E t \in Threads : close_loop(t)
    \/ \E t \in Threads : close_next(t)
    \/ \E t \in Threads : raw_pop(t)
    \/ \E t \in Threads : raw_check(t)
    \/ \E t \in Threads : raw_while(t)
    \/ \E t \in Threads : raw_evict(t)
    \/ \E t \in Threads : raw_timeout(t)
    \/ \E t \in Threads : raw_sleep(t)
    \/ \E t \in Threads : raw_connect(t)
    \/ \E t \in Threads : raw_startup(t)
    \/ \E t \in Threads : raw_insert(t)
    \/ \E t \in Threads : body_returns(t)
    \/ \E t \in Threads : body_interrupted(t)
    \/ \E t \in Threads : body_raises(t)
    \/ Tick
    \/ BreakDb

Spec == Init /\ [][Next]_vars

SpecSeq == InitSeq /\ [][Next]_vars

\* a step of thread t inside a pool call, or reading its result: everything but
\* starting a call and leaving a body, which are up to the caller
Step(t) ==
    \/ finish(t) \/ prune_snap(t) \/ prune_loop(t)
    \/ term_check(t) \/ term_pop(t) \/ term_close(t)
    \/ evict_sort(t) \/ evict_loop(t)
    \/ close_snap(t) \/ close_loop(t) \/ close_next(t)
    \/ raw_pop(t) \/ raw_check(t) \/ raw_while(t) \/ raw_evict(t)
    \/ raw_timeout(t) \/ raw_sleep(t)
    \/ raw_connect(t) \/ raw_startup(t) \/ raw_insert(t)

\* a thread inside a call keeps running and the clock keeps advancing; a body may
\* run for ever
Fairness == WF_vars(Tick) /\ \A t \in Threads : WF_vars(Step(t))

SpecLive == Init /\ [][Next]_vars /\ Fairness

\* --------------------------------------- Component.http_error: the wrapper
pool == <<now, max_conns, conns, stats, dbs, th, ops, faults, serial>>

\* lines 63-65: the wrapper is called; with service_check, tags is read from the call
wrapper_call ==
    /\ http.pc = "idle" /\ http.calls < MaxCalls
    /\ \E how \in {"positional", "keyword", "absent"}, v \in TagValues :
        LET args == ArgsOf(how, v)
            kwargs == KwargsOf(how, v)
        IN  http' = [HttpIdle(http.service_check) EXCEPT
                        !.pc = "func", !.args = args, !.kwargs = kwargs,
                        !.passed = IF how = "absent" THEN "None" ELSE v,
                        !.tags = IF http.service_check
                                 THEN argument_value("tags", Params, args, kwargs)
                                 ELSE "unbound",
                        !.calls = http.calls + 1]
    /\ UNCHANGED pool

\* line 67: result = func(self, *args, **kwargs), which returns or raises
wrapper_func ==
    /\ http.pc = "func"
    /\ \/ \E r \in Results : http' = [http EXCEPT !.pc = "after_func", !.result = r]
       \/ http' = [http EXCEPT !.pc = "except_http_error", !.raised = "HTTPError"]
       \/ http' = [http EXCEPT !.pc = "except_exception", !.raised = "Exception"]
    /\ UNCHANGED pool

\* lines 68-71: the OK service check, then return result, or True for None
wrapper_ok ==
    LET tags == argument_value("tags", Params, http.args, http.kwargs) IN
    /\ http.pc = "after_func"
    /\ http' = [http EXCEPT
                    !.pc = "returned",
                    !.tags = IF http.service_check THEN tags ELSE @,
                    !.emitted = IF http.service_check
                                THEN Append(@, [status |-> "OK", tags |-> tags])
                                ELSE @,
                    !.ret = IF http.result # "None" THEN http.result ELSE "True"]
    /\ UNCHANGED pool

\* lines 72-79 and 82: log, the CRITICAL service check, return None
wrapper_http_error ==
    /\ http.pc = "except_http_error"
    /\ http' = [http EXCEPT
                    !.pc = "returned",
                    !.emitted = IF http.service_check
                                THEN Append(@, [status |-> "CRITICAL", tags |-> http.tags])
                                ELSE @,
                    !.ret = "None"]
    /\ UNCHANGED pool

\* lines 80-82: log, return None
wrapper_exception ==
    /\ http.pc = "except_exception"
    /\ http' = [http EXCEPT !.pc = "returned", !.ret = "None"]
    /\ UNCHANGED pool

\* the caller has the wrapper's return value
wrapper_returned ==
    /\ http.pc = "returned"
    /\ http' = [HttpIdle(http.service_check) EXCEPT !.calls = http.calls]
    /\ UNCHANGED pool

InitHttp ==
    /\ now = 0
    /\ max_conns = 0
    /\ conns = <<>>
    /\ stats = Stats
    /\ dbs = <<>>
    /\ th = [t \in Threads |-> Idle]
    /\ ops = 0
    /\ faults = 0
    /\ serial = TRUE
    /\ http \in {HttpIdle(service_check) : service_check \in BOOLEAN}

NextHttp ==
    \/ wrapper_call
    \/ wrapper_func
    \/ wrapper_ok
    \/ wrapper_http_error
    \/ wrapper_exception
    \/ wrapper_returned

SpecHttp == InitHttp /\ [][NextHttp]_vars

\* ------------------------------------------------------- the properties
\* t holds a lease: get_connection has yielded db and the body has not exited
Holds(t, c) == th[t].pc = "body" /\ th[t].db = c

InRegistry(c) == \E i \in 1..Len(conns) : conns[i].info.connection = c

\* a thread in the middle of a call has c in a local and is about to store or close it
InTransit(c) ==
    \E t \in Threads :
        \/ th[t].pc \in {"raw_check", "raw_while", "raw_evict", "raw_timeout", "raw_sleep",
                         "raw_connect", "raw_startup", "raw_insert"} /\ th[t].db = c
        \/ th[t].stack # <<>> /\ th[t].stack[Len(th[t].stack)] \in {"raw_pop", "raw_evict", "raw_timeout"}
           /\ th[t].db = c
        \/ th[t].pc = "term_close" /\ th[t].t_db = c

\* open, as the factory returned it: not closed, not broken, close() never invoked
Live(c) == ~dbs[c].closed /\ ~dbs[c].broken /\ dbs[c].closes = 0

\* thread u closes the connection it has just taken out of the registry
Closes(u) == th[u].pc = "term_close" /\ th'[u].pc # "term_close"

\* thread u takes a record out of the registry inside _terminate_connection_unsafe
Removes(u) == th[u].pc = "term_pop" /\ th'[u].pc = "term_close"

\* C1: no connection is handed to a caller while another caller still holds an
\* unreleased lease on it: two threads are never in their bodies with the same db.
C1_ExclusiveLease ==
    \A t, u \in Threads :
        (t # u /\ th[t].pc = "body" /\ th[u].pc = "body") => th[t].db # th[u].db

\* C2: for every key there is at most one open connection that the pool has stored
\* or handed out (no double open when two acquires of the same key race).
C2_OneConnectionPerKey ==
    \A c, d \in 1..Len(dbs) :
        ( /\ dbs[c].dbname = dbs[d].dbname
          /\ Live(c) /\ Live(d)
          /\ (InRegistry(c) \/ \E t \in Threads : Holds(t, c))
          /\ (InRegistry(d) \/ \E t \in Threads : Holds(t, d)) ) => c = d

\* C3: when an acquire that opened a new connection under a cap returns, the
\* registry holds at most max_conns records.
C3_CapacityBound ==
    [][\A t \in Threads :
          ( /\ th[t].pc = "raw_insert" /\ th'[t].pc = "body"
            /\ th[t].opened /\ max_conns # 0 ) => Len(conns') <= max_conns]_vars

\* C4: whichever way the body exits, once the scope has exited the record of the
\* leased key is idle or gone.
C4_GuaranteedRelease ==
    \A t \in Threads :
        (th[t].pc = "done" /\ th[t].exit # "none" /\ Has(conns, th[t].dbname))
            => ~Get(conns, th[t].dbname).info.active

\* C5: prune_connections and evict_lru never close a connection that a caller
\* holds under an unreleased lease.
C5_NoCloseUnderLease ==
    [][\A u \in Threads :
          (Closes(u) /\ th[u].t_by \in {"prune", "evict"})
              => ~\E t \in Threads : Holds(t, th[u].t_db)]_vars

\* C6: every connection the factory returned is referenced by a registry record,
\* or is in the hands of a running call, or has had close() invoked on it.
C6_NoSilentLeak ==
    \A c \in 1..Len(dbs) :
        InRegistry(c) \/ InTransit(c) \/ (\E t \in Threads : Holds(t, c)) \/ dbs[c].closes > 0

\* a call of prune_connections() by a caller has returned to it
PruneDone(t) == th[t].pc = "done" /\ th[t].op = "prune_connections" /\ th[t].exc = "none"

\* a call of evict_lru() by a caller has returned to it
EvictDone(t) == th[t].pc = "done" /\ th[t].op = "evict_lru" /\ th[t].exc = "none"

Evictable(d) == {i \in 1..Len(d) : ~d[i].info.active /\ ~d[i].info.persistent}

\* C8: evict_lru() removes and closes exactly one record, an idle non-persistent
\* one with the smallest last_accessed, and returns its key; with no such record
\* it returns None and leaves the registry and the stats as they were.
C8_LruEviction ==
    \A t \in Threads :
        EvictDone(t) =>
            LET pre == th[t].pre
                E == Evictable(pre)
            IN  IF E = {}
                THEN th[t].ret = "None" /\ conns = pre /\ stats = th[t].pre_stats
                ELSE \E i \in E :
                        /\ \A j \in E : pre[i].info.last_accessed <= pre[j].info.last_accessed
                        /\ th[t].ret = pre[i].name
                        /\ conns = Pop(pre, pre[i].name)
                        /\ dbs[pre[i].info.connection].closes >= 1
                        /\ stats.connection_closed + stats.connection_closed_failed
                             = th[t].pre_stats.connection_closed
                               + th[t].pre_stats.connection_closed_failed + 1
                        /\ stats.connection_opened = th[t].pre_stats.connection_opened
                        /\ stats.connection_pruned = th[t].pre_stats.connection_pruned

C8_Witness ==
    \E t \in Threads :
        /\ EvictDone(t)
        /\ th[t].ret # "None"
        /\ \E i, j \in Evictable(th[t].pre) :
            th[t].pre[i].info.last_accessed < th[t].pre[j].info.last_accessed

\* C9: prune and evict never take a persistent record out of the registry, and an
\* acquire that reuses a persistent record stores it persistent again, whatever
\* persistent value the caller passed.
C9_PersistentImmunity ==
    [][ /\ \A u \in Threads :
             (Removes(u) /\ th[u].t_by \in {"prune", "evict"})
                 => ~Get(conns, th[u].t_dbname).info.persistent
        /\ \A t \in Threads :
             ( /\ th[t].pc = "raw_insert" /\ th'[t].pc = "body"
               /\ th[t].conn.info.persistent
               /\ th[t].db = th[t].conn.info.connection )
                 => Get(conns', th[t].dbname).info.persistent ]_vars

C9_Witness ==
    \E t \in Threads :
        /\ PruneDone(t)
        /\ \E i \in 1..Len(conns) :
            /\ conns[i].info.persistent /\ ~conns[i].info.active
            /\ conns[i].info.deadline < th[t].now
        /\ Len(conns) < Len(th[t].pre)

\* C10: once get_main_db() has handed out the record of the main database, prune
\* and evict never take that record out of the registry.
C10_MainImmunity ==
    [][\A u \in Threads :
          (Removes(u) /\ th[u].t_by \in {"prune", "evict"})
              => ~Get(conns, th[u].t_dbname).main]_vars

\* an acquire has ended with ConnectionPoolFullError(self.max_conns, timeout)
PoolFullRaised(t) == th[t].pc = "done" /\ th[t].exc = "ConnectionPoolFullError"

\* every slot of a capped registry is taken by a record in use
SlotsBusy ==
    /\ max_conns # 0 /\ Len(conns) >= max_conns
    /\ \A i \in 1..Len(conns) : conns[i].info.active

\* t waits in the admission loop, early enough for the iteration that finds its
\* timeout exceeded to fall inside the clock's range
Blocked(t) ==
    /\ th[t].pc = "raw_sleep"
    /\ th[t].start + SleepTicks * ((th[t].timeout \div SleepTicks) + 1) <= MaxTime

BrokenReleased(t) ==
    /\ th[t].pc = "done" /\ th[t].exit = "return" /\ th[t].t_by = "release"

\* C12: when a lease's body exits normally and its connection reports itself
\* broken, then after the release the registry holds no record for the key and
\* close() has been invoked on the connection.
C12_BrokenOnRelease ==
    \A t \in Threads :
        BrokenReleased(t) =>
            /\ ~Has(conns, th[t].dbname)
            /\ dbs[th[t].db].closes >= 1

\* a lease whose body raised InterruptedError has been released
Interrupted(t) == th[t].pc = "done" /\ th[t].exit = "interrupt"

CloseAllDone(t) ==
    th[t].pc = "done" /\ th[t].op = "close_all_connections" /\ th[t].exc = "none"

\* C14: close_all_connections() invokes close() on the connection of every record
\* the registry held at the call, busy and persistent ones included, also after
\* one of the closes failed; none of those keys is left in the registry; and it
\* returns True exactly when no close failed.
C14_BulkClose ==
    \A t \in Threads :
        CloseAllDone(t) =>
            /\ \A i \in 1..Len(th[t].pre) :
                  /\ ~Has(conns, th[t].pre[i].name)
                  /\ dbs[th[t].pre[i].info.connection].closes >= 1
            /\ stats.connection_closed + stats.connection_closed_failed
                 = th[t].pre_stats.connection_closed
                   + th[t].pre_stats.connection_closed_failed + Len(th[t].pre)
            /\ (th[t].ret = "True")
                 <=> (stats.connection_closed_failed = th[t].pre_stats.connection_closed_failed)

C14_Witness ==
    \E t \in Threads :
        /\ CloseAllDone(t) /\ th[t].ret = "False"
        /\ Len(th[t].pre) = 2
        /\ \E i \in 1..2 : th[t].pre[i].info.active \/ th[t].pre[i].info.persistent
        /\ ~dbs[th[t].pre[1].info.connection].closed
        /\ dbs[th[t].pre[2].info.connection].closed

\* thread t's acquire returns: get_connection yields db to the body
Acquired(t) == th[t].pc = "raw_insert" /\ th'[t].pc = "body"

\* the registry held, when t's call began, a record for its key whose connection
\* is neither closed nor broken
HadHealthy(t) ==
    /\ Has(th[t].pre, th[t].dbname)
    /\ ~th[t].pre_dbs[Get(th[t].pre, th[t].dbname).info.connection].closed
    /\ ~th[t].pre_dbs[Get(th[t].pre, th[t].dbname).info.connection].broken

\* the acquire handed out the connection the key had, opened nothing, ran no
\* hook, and stored the record busy with a fresh deadline and last_accessed
Reused(t) ==
    LET old == Get(th[t].pre, th[t].dbname).info IN
    /\ th'[t].db = old.connection
    /\ ~th'[t].opened
    /\ Len(dbs') = Len(th[t].pre_dbs)
    /\ dbs'[old.connection].startups = th[t].pre_dbs[old.connection].startups
    /\ stats'.connection_opened = th[t].pre_stats.connection_opened
    /\ Get(conns', th[t].dbname).info
         = ConnectionInfo(old.connection, now + th[t].ttl_ms, TRUE, now, old.persistent)

\* C15 as stated: an acquire of a key whose record exists and is healthy reuses it.
C15_ReuseOnAcquire ==
    [][\A t \in Threads : (Acquired(t) /\ HadHealthy(t)) => Reused(t)]_vars

\* C15 amended: an acquire of a key whose record exists, is healthy and is busy,
\* persistent or not past its deadline reuses it (an idle non-persistent record
\* past its deadline is pruned by the acquire itself, which then opens anew).
C15_ReuseUnlessExpired ==
    [][\A t \in Threads :
          ( /\ Acquired(t) /\ HadHealthy(t)
            /\ LET old == Get(th[t].pre, th[t].dbname).info
               IN  old.active \/ old.persistent \/ old.deadline >= now )
              => Reused(t)]_vars

C15_Witness ==
    \E t \in Threads :
        /\ th[t].pc = "body" /\ ~th[t].opened
        /\ Has(conns, th[t].dbname)
        /\ Get(conns, th[t].dbname).info.connection = th[t].db
        /\ Get(conns, th[t].dbname).info.last_accessed > 0
        /\ Get(conns, th[t].dbname).info.last_accessed = now
        /\ dbs[th[t].db].startups = 1

\* an acquire has ended with the exception connect_fn or startup_fn raised
ConnectFailed(t) == th[t].pc = "done" /\ th[t].exc = "ConnectFailure"

\* C16: when connect_fn or startup_fn raises during an acquire, the caller gets
\* that exception, connect_fn was invoked once, the registry holds no record for
\* the requested key, and every busy record was busy before the call.
C16_ConnectFailure ==
    \A t \in Threads :
        ConnectFailed(t) =>
            /\ th[t].tries = 1
            /\ ~Has(conns, th[t].dbname)
            /\ \A i \in 1..Len(conns) :
                  conns[i].info.active =>
                      \E j \in 1..Len(th[t].pre) :
                          th[t].pre[j].rid = conns[i].rid /\ th[t].pre[j].info.active

C16_Witness ==
    \E t \in Threads :
        /\ ConnectFailed(t) /\ th[t].opened
        /\ Has(th[t].pre, th[t].dbname)
        /\ \E i \in 1..Len(conns) : conns[i].info.active

\* a call of prune_connections, evict_lru or close_all_connections, or the release
\* of a lease, has ended and a close() failed in the course of it
CloseFailedIn(t) ==
    /\ th[t].pc = "done"
    /\ \/ th[t].op \in {"prune_connections", "evict_lru", "close_all_connections"}
       \/ th[t].exit \in {"return", "interrupt"}
    /\ stats.connection_closed_failed > th[t].pre_stats.connection_closed_failed

\* C17: when close() fails during prune, evict, release or close_all, the caller
\* sees no error from it (an interruption is still re-raised), every record taken
\* out of the registry is counted once, the failed one in connection_closed_failed
\* and not in connection_closed, and the operation has gone on over the remaining
\* records: prune leaves no idle non-persistent record past its deadline and
\* close_all leaves none of the keys it found.
C17_CloseFailureSwallowed ==
    \A t \in Threads :
        CloseFailedIn(t) =>
            LET L == th[t]
                failed == stats.connection_closed_failed - L.pre_stats.connection_closed_failed
                closed == stats.connection_closed - L.pre_stats.connection_closed
            IN  /\ L.exc = (IF L.exit = "interrupt" THEN "InterruptedError" ELSE "none")
                /\ Len(L.pre) - Len(conns) = closed + failed
                /\ \A i \in 1..Len(conns) : \E j \in 1..Len(L.pre) : L.pre[j] = conns[i]
                /\ L.op = "prune_connections" =>
                      \A i \in 1..Len(conns) :
                          conns[i].info.active \/ conns[i].info.persistent
                          \/ conns[i].info.deadline >= L.now
                /\ L.op = "close_all_connections" =>
                      /\ L.ret = "False"
                      /\ \A j \in 1..Len(L.pre) : ~Has(conns, L.pre[j].name)

C17_Witness ==
    \E t \in Threads :
        /\ CloseFailedIn(t)
        /\ th[t].op = "prune_connections"
        /\ Len(th[t].pre) = 2 /\ conns = <<>>
        /\ stats.connection_closed = th[t].pre_stats.connection_closed + 1
        /\ ~dbs[th[t].pre[1].info.connection].closed

\* C18: with service_check enabled, a call whose method raised HTTPError has
\* emitted one service check, CRITICAL with the tags the caller passed, and returns
\* None with nothing raised; a call whose method returned has emitted one service
\* check, OK with those tags, and returns the result, or True when it is None.
C18_ServiceCheckOnHttpError ==
    (http.pc = "returned" /\ http.service_check) =>
        /\ http.raised = "HTTPError" =>
              /\ http.emitted = <<[status |-> "CRITICAL", tags |-> http.passed]>>
              /\ http.ret = "None" /\ http.exc = "none"
        /\ http.raised = "none" =>
              /\ http.emitted = <<[status |-> "OK", tags |-> http.passed]>>
              /\ http.ret = (IF http.result = "None" THEN "True" ELSE http.result)

C18_Witness ==
    /\ http.pc = "returned" /\ http.service_check /\ http.raised = "HTTPError"
    /\ http.passed \in TagValues /\ http.kwargs # <<>> /\ http.calls = 2

\* C19: ConnectionPoolFullError is raised only when the registry, after the
\* iteration's prune and eviction, still holds max_conns records or more.
C19_FailsOnlyWhenFull ==
    [][\A t \in Threads :
          (th[t].pc = "raw_timeout" /\ PoolFullRaised(t)') => PoolFull(conns)]_vars

\* C20: an acquire asleep in the admission loop, with an idle non-persistent record
\* in the registry (a lease was released) before its timeout has elapsed,
\* eventually gets its connection (or the exception of connect_fn or startup_fn).
C20_AdmissionProgress ==
    \A t \in Threads :
        ( /\ Blocked(t)
          /\ Evictable(conns) # {}
          /\ now - th[t].start < th[t].timeout )
            ~> (th[t].pc = "body" \/ ConnectFailed(t))

\* thread t is inside the removal of _terminate_connection_unsafe: it has found
\* the key present (line 208) and has not yet popped it (line 211)
InRemoval(t) == th[t].pc = "term_pop"

\* a removal has ended with the KeyError of self._conns.pop(dbname) (line 211)
RemovalKeyError(t) == th[t].pc = "done" /\ th[t].exc = "KeyError"

\* C21: no two threads are at the same time inside the check-then-pop removal that
\* acquire, release, prune, evict and close_all share; no removal ends with a
\* missing-key error; and close() is invoked at most once on any connection.
C21_MutualExclusion ==
    /\ \A t, u \in Threads : (t # u) => ~(InRemoval(t) /\ InRemoval(u))
    /\ \A t \in Threads : ~RemovalKeyError(t)
    /\ \A d \in 1..Len(dbs) : dbs[d].closes <= 1

====
